---- MODULE Spec2Model ----
(***************************************************************************)
(* Model of the interview scheduler tools of                               *)
(* src/interview_scheduler_agent/agent.py: the keyword classification of   *)
(* the console outcome text by call_contact, schedule_calendar,            *)
(* send_email, manage_notes and human_in_loop, the result records they     *)
(* build, and the coordination workflow that root_agent's instruction      *)
(* describes.  Texts are TLA+ strings, handled character by character.     *)
(***************************************************************************)
EXTENDS Integers, Sequences, FiniteSets, TLC

VARIABLES
    notepad_storage,  \* agent.py:6, the module-level notepad
    DATABASE_SCHEMA,  \* sql_agent.py:42, the module-level table descriptions
    tool,             \* name of the tool whose record is held, "none" if none
    args,             \* the arguments of that call
    inputs,           \* the console lines that call read, in order
    result,           \* the record that call returned
    replay_text,      \* replay runs: the one text typed as every outcome
    first_status,     \* replay runs: tool, arguments, status of the first call
    state,            \* coordination state of the session
    trigger,          \* the state from which the session was escalated
    esc_situation,    \* the situation of the current escalation
    pending,          \* the action the session issues next
    final,            \* "completed" or "cancelled" once Done
    notified,         \* participants whose confirmation email was triggered
    log               \* the session's attempts, oldest first

toolvars == <<notepad_storage, tool, args, inputs, result>>
replayvars == <<replay_text, first_status>>
smvars == <<state, trigger, esc_situation, pending, final, notified, log>>
sqlvars == <<DATABASE_SCHEMA>>
vars == <<notepad_storage, tool, args, inputs, result, replay_text,
          first_status, state, trigger, esc_situation, pending, final, notified,
          log, DATABASE_SCHEMA>>

-----------------------------------------------------------------------------
(* Bounds and input sets *)

\* largest number of fragments concatenated into one console text
MaxFrags == 2

\* fragments the console texts are built from; two of them can form each
\* multi-part keyword ("no answer", "failed") and its near misses
Frags == {"No ", "answer", "fail", "ED", "Conflict", "ERROR", "cancel"}

RECURSIVE Concats(_)
Concats(n) ==
    IF n = 0 THEN {""}
    ELSE LET shorter == Concats(n - 1)
         IN  shorter \cup {s \o f : s \in shorter, f \in Frags}

\* every console text of at most MaxFrags fragments, the empty text included
Texts == Concats(MaxFrags)

\* purposes, subjects and message types given by the caller
Purposes == {"", "general update", "Interviewer availability",
             "check CANDIDATE preference", "applicant screening",
             "escalate to HR", "call the recruiter", "recruitment drive",
             "interview availability request",
             "candidate asks for interviewer", "Chris follow-up"}
Subjects == {"", "Interview availability", "Applicant update",
             "candidate asks for interviewer", "Chris follow-up"}
MessageTypes == {"notification", "INTERVIEWER request", "recruitment"}
Names == {"Sarah Chen"}
Phones == {"+1-555-0101"}
Emails == {"sarah@example.com"}
Dates == {"2025-06-20"}
Clocks == {"15:00"}
Durations == {60}
InterviewTypes == {"technical"}
Details == {"slots attached"}
Replies == {"", "  ", "Tuesday works", "delivery failed",
            "Email not delivered"}
ResponseTimes == {"5 minutes"}

\* queries, the lines typed at the prompts of execute_sql_query, table names
\* and the lines typed at the prompt of get_table_schema
Queries == {"SELECT 1", "SELECT * FROM case_master"}
Explanations == {""}
SqlOutcomes == {"success", "SUCCESS", "error", "error:", "error: ",
                "Error: relation missing", "ERROR:  timeout ", "errors found",
                "an error occurred", "{\"rows\": [1, 2]}", "{\"rows\": 5}",
                "{\"rows\": null}", "[1, 2]", "7", ""}
SqlResults == {"5", "0", "12", "{\"rows\": [1, 2]}", "{\"rows\": []}",
               "{\"rows\": 5}", "{\"rows\": \"ab\"}", "{\"count\": 3}",
               "no rows", "", "[1, 2]", "-3"}
TableNames == {"customer_master", "customer_preferences", "api_master",
               "pipeline_master", "pipleline_customer_config", "di_audit",
               "case_master", "document_classification", "orders",
               "Customer_Master", ""}
SchemaInputs == {"", "  ", "{\"id\": \"int\"}", "[\"id\", \"name\"]",
                 "id int, name text", "{\"id\": "}
NoteActions == {"read", "write", "append", "delete"}
NoteContents == {"", "slot: Tue 2pm"}
Situations == {"interviewer unresponsive", "slot conflict at confirmation"}
Instructions == {"", "  ", "cancel"}

\* readings of datetime.datetime.now(): minute part and the rest
Nows == {[ymdhm |-> "202506201500", rest |-> "07.123456"],
         [ymdhm |-> "202506201501", rest |-> "59.000001"]}

-----------------------------------------------------------------------------
(* Python string operations *)

UpperChars == "ABCDEFGHIJKLMNOPQRSTUVWXYZ"
LowerChars == "abcdefghijklmnopqrstuvwxyz"
Spaces == {" ", "\t"}

\* the lower-case letter of every upper-case letter
LowerMap ==
    [c \in {SubSeq(UpperChars, i, i) : i \in 1..Len(UpperChars)} |->
        LET i == CHOOSE j \in 1..Len(UpperChars) : SubSeq(UpperChars, j, j) = c
        IN  SubSeq(LowerChars, i, i)]

\* str.lower() on one character
LowerChar(c) == IF c \in DOMAIN LowerMap THEN LowerMap[c] ELSE c

\* str.lower()
RECURSIVE lower(_)
lower(s) ==
    IF s = "" THEN ""
    ELSE LowerChar(SubSeq(s, 1, 1)) \o lower(SubSeq(s, 2, Len(s)))

\* does s carry kw at position i
MatchAt(kw, s, i) == SubSeq(s, i, i + Len(kw) - 1) = kw

\* the scan of Python's `kw in s`, left to right from position i
RECURSIVE FindFrom(_, _, _)
FindFrom(kw, s, i) ==
    IF i + Len(kw) - 1 > Len(s) THEN FALSE
    ELSE IF MatchAt(kw, s, i) THEN TRUE
    ELSE FindFrom(kw, s, i + 1)

\* Python's `kw in s`
In(kw, s) == FindFrom(kw, s, 1)

\* variant: the text tested as it is, without strip()
StripNonEmpty_unstripped(s) == s # ""

\* str.strip() leaves a non-empty text: some character is not whitespace
StripNonEmpty(s) == \E i \in 1..Len(s) : SubSeq(s, i, i) \notin Spaces

-----------------------------------------------------------------------------
(* The tools.  Each takes its arguments, the console lines `ins` waiting at *)
(* the prompt and the clock reading, and gives the record it returns and   *)
(* the number of console lines it read.                                    *)

\* variant: the call takes "applicant" for a candidate as the email does
call_contact_role_applicant(purpose) ==
    IF In("interviewer", lower(purpose)) THEN "Interviewer"
    ELSE IF In("candidate", lower(purpose)) \/ In("applicant", lower(purpose))
         THEN "Candidate"
    ELSE IF In("hr", lower(purpose)) \/ In("recruiter", lower(purpose))
         THEN "HR/Recruiter"
    ELSE "Contact"

\* agent.py:19-28
call_contact_role(purpose) ==
    IF In("interviewer", lower(purpose)) THEN "Interviewer"
    ELSE IF In("candidate", lower(purpose)) THEN "Candidate"
    ELSE IF In("hr", lower(purpose)) \/ In("recruiter", lower(purpose))
         THEN "HR/Recruiter"
    ELSE "Contact"

\* variant: the second keyword shortened to "fail"
call_contact_success_fail(outcome) ==
    ~In("no answer", lower(outcome)) /\ ~In("fail", lower(outcome))

\* variant: an empty outcome counted as an unanswered call
call_contact_success_nonempty(outcome) ==
    /\ outcome # ""
    /\ ~In("no answer", lower(outcome)) /\ ~In("failed", lower(outcome))

\* variant: `or` between the two tests, so one keyword alone is not enough
call_contact_success_either(outcome) ==
    ~In("no answer", lower(outcome)) \/ ~In("failed", lower(outcome))

\* variant: the scheduling keyword "conflict" counted for a call as well
call_contact_success_conflict(outcome) ==
    /\ ~In("no answer", lower(outcome)) /\ ~In("failed", lower(outcome))
    /\ ~In("conflict", lower(outcome))

\* variant: the first `not` left out
call_contact_success_inverted(outcome) ==
    In("no answer", lower(outcome)) /\ ~In("failed", lower(outcome))

\* agent.py:38
call_contact_success(outcome) ==
    ~In("no answer", lower(outcome)) /\ ~In("failed", lower(outcome))

\* variant: the two next-step hints exchanged
call_contact_hint(contact_name, phone_number, purpose, ins, now) ==
    LET role == call_contact_role(purpose)
        outcome == ins[1]
        success == call_contact_success(outcome)
    IN  [consumed |-> 1,
         result |->
            [status |-> IF success THEN "success" ELSE "no_answer",
             contact_name |-> contact_name,
             contact_role |-> role,
             phone_number |-> phone_number,
             discussion_summary |-> outcome,
             duration_minutes |-> IF success THEN 5 ELSE 0,
             next_steps |-> IF success THEN "Follow up via email"
                            ELSE "Proceed with scheduling"]]

\* variant: the summary keeps the lower-cased text the keywords were
\* looked up in, not the text as typed
call_contact_summary_lower(contact_name, phone_number, purpose, ins, now) ==
    LET role == call_contact_role(purpose)
        outcome == lower(ins[1])
        success == call_contact_success(outcome)
    IN  [consumed |-> 1,
         result |->
            [status |-> IF success THEN "success" ELSE "no_answer",
             contact_name |-> contact_name,
             contact_role |-> role,
             phone_number |-> phone_number,
             discussion_summary |-> outcome,
             duration_minutes |-> IF success THEN 5 ELSE 0,
             next_steps |-> IF ~success THEN "Follow up via email"
                            ELSE "Proceed with scheduling"]]

\* agent.py:8-51
call_contact(contact_name, phone_number, purpose, ins, now) ==
    LET role == call_contact_role(purpose)
        outcome == ins[1]
        success == call_contact_success(outcome)
    IN  [consumed |-> 1,
         result |->
            [status |-> IF success THEN "success" ELSE "no_answer",
             contact_name |-> contact_name,
             contact_role |-> role,
             phone_number |-> phone_number,
             discussion_summary |-> outcome,
             duration_minutes |-> IF success THEN 5 ELSE 0,
             next_steps |-> IF ~success THEN "Follow up via email"
                            ELSE "Proceed with scheduling"]]

\* variant: the keywords looked up in the text as typed, not lower-cased
schedule_calendar_success_cased(outcome) ==
    ~In("conflict", outcome) /\ ~In("fail", outcome)

\* variant: only "conflict" counts, "fail" is not looked for
schedule_calendar_success_conflict(outcome) ==
    ~In("conflict", lower(outcome))

\* agent.py:74
schedule_calendar_success(outcome) ==
    ~In("conflict", lower(outcome)) /\ ~In("fail", lower(outcome))

schedule_calendar(candidate_name, date, time, duration_minutes, interview_type, ins, now) ==
    LET outcome == ins[1]
        success == schedule_calendar_success(outcome)
    IN  [consumed |-> 1,
         result |->
            [status |-> IF success THEN "success" ELSE "conflict",
             candidate_name |-> candidate_name,
             scheduled_date |-> date,
             scheduled_time |-> time,
             duration_minutes |-> duration_minutes,
             interview_type |-> interview_type,
             confirmation |-> outcome,
             meeting_id |-> "INT_" \o now.ymdhm]]

\* agent.py:104, 106, 108: any(word in message_type.lower() or
\* word in subject.lower() for word in words)
AnyWord(words, message_type, subject) ==
    \E word \in words :
        In(word, lower(message_type)) \/ In(word, lower(subject))

\* agent.py:102-111
send_email_role(message_type, subject) ==
    IF AnyWord({"interviewer", "interview availability"}, message_type, subject)
    THEN "Interviewer"
    ELSE IF AnyWord({"candidate", "applicant"}, message_type, subject)
    THEN "Candidate"
    ELSE IF AnyWord({"hr", "recruiter", "recruitment"}, message_type, subject)
    THEN "HR/Recruiter"
    ELSE "Recipient"

\* variant: only "error" counts as a delivery failure
send_email_delivered_error(outcome) ==
    ~In("error", lower(outcome))

\* agent.py:122 and 139
send_email_delivered(outcome) ==
    ~In("fail", lower(outcome)) /\ ~In("error", lower(outcome))

\* variant: the status also looks for the keywords in the reply
send_email_reply(recipient_email, subject, message_type, additional_details, ins, now) ==
    LET role == send_email_role(message_type, subject)
        outcome == ins[1]
        delivered == send_email_delivered(outcome)
        replied == delivered /\ StripNonEmpty(ins[2])
        email_response == IF ~delivered THEN "Email not delivered"
                          ELSE IF replied THEN ins[2]
                          ELSE "No response received"
        response_time == IF replied THEN ins[3] ELSE "N/A"
    IN  [consumed |-> IF ~delivered THEN 1 ELSE IF replied THEN 3 ELSE 2,
         result |->
            [status |-> IF send_email_delivered(outcome)
                           /\ send_email_delivered(email_response)
                        THEN "success" ELSE "failed",
             recipient_email |-> recipient_email,
             recipient_role |-> role,
             subject |-> subject,
             message_type |-> message_type,
             delivery_confirmation |-> outcome,
             recipient_response |-> email_response,
             response_time |-> response_time,
             sent_at |-> now.ymdhm \o now.rest]]

\* variant: the response time asked for after every delivered email
send_email_always_time(recipient_email, subject, message_type, additional_details, ins, now) ==
    LET role == send_email_role(message_type, subject)
        outcome == ins[1]
        delivered == send_email_delivered(outcome)
        replied == delivered /\ StripNonEmpty(ins[2])
        email_response == IF ~delivered THEN "Email not delivered"
                          ELSE IF replied THEN ins[2]
                          ELSE "No response received"
        response_time == IF delivered THEN ins[3] ELSE "N/A"
    IN  [consumed |-> IF ~delivered THEN 1 ELSE 3,
         result |->
            [status |-> IF send_email_delivered(outcome) THEN "success"
                        ELSE "failed",
             recipient_email |-> recipient_email,
             recipient_role |-> role,
             subject |-> subject,
             message_type |-> message_type,
             delivery_confirmation |-> outcome,
             recipient_response |-> email_response,
             response_time |-> response_time,
             sent_at |-> now.ymdhm \o now.rest]]

\* agent.py:90-156
send_email(recipient_email, subject, message_type, additional_details, ins, now) ==
    LET role == send_email_role(message_type, subject)
        outcome == ins[1]
        delivered == send_email_delivered(outcome)
        replied == delivered /\ StripNonEmpty(ins[2])
        email_response == IF ~delivered THEN "Email not delivered"
                          ELSE IF replied THEN ins[2]
                          ELSE "No response received"
        response_time == IF replied THEN ins[3] ELSE "N/A"
    IN  [consumed |-> IF ~delivered THEN 1 ELSE IF replied THEN 3 ELSE 2,
         result |->
            [status |-> IF send_email_delivered(outcome) THEN "success"
                        ELSE "failed",
             recipient_email |-> recipient_email,
             recipient_role |-> role,
             subject |-> subject,
             message_type |-> message_type,
             delivery_confirmation |-> outcome,
             recipient_response |-> email_response,
             response_time |-> response_time,
             sent_at |-> now.ymdhm \o now.rest]]

\* agent.py:158-196
manage_notes(action, content, ins, now) ==
    IF action = "read"
    THEN [consumed |-> 1,
          result |-> [status |-> "success",
                      action |-> "read",
                      current_notes |-> ins[1],
                      timestamp |-> now.ymdhm \o now.rest]]
    ELSE LET outcome == ins[1]
             base == [status |-> IF ~In("fail", lower(outcome)) THEN "success"
                                 ELSE "error",
                      action |-> action,
                      message |-> outcome,
                      timestamp |-> now.ymdhm \o now.rest]
         IN  [consumed |-> 1,
              result |-> IF action \in {"write", "append"}
                         THEN [status |-> base.status,
                               action |-> base.action,
                               message |-> base.message,
                               timestamp |-> base.timestamp,
                               content |-> content]
                         ELSE base]

\* variant: the decision compared with the keyword instead of searched
human_in_loop_status_equal(decision) ==
    IF lower(decision) # "cancel" THEN "resolved" ELSE "cancelled"

\* variant: the `not` left out, the two statuses exchanged
human_in_loop_status_swapped(decision) ==
    IF In("cancel", lower(decision)) THEN "resolved" ELSE "cancelled"

\* agent.py:224
human_in_loop_status(decision) ==
    IF ~In("cancel", lower(decision)) THEN "resolved" ELSE "cancelled"

\* variant: the keyword searched in the additional instructions as well
human_in_loop_instructions(situation, context, suggested_actions, ins, now) ==
    LET decision == ins[1]
        additional_instructions == ins[2]
    IN  [consumed |-> 2,
         result |->
            [status |-> human_in_loop_status(decision \o " "
                                             \o additional_instructions),
             decision |-> decision,
             additional_instructions |->
                 IF additional_instructions # "" THEN additional_instructions
                 ELSE "None",
             timestamp |-> now.ymdhm \o now.rest]]

\* variant: instructions of blanks only count as none
human_in_loop_blank(situation, context, suggested_actions, ins, now) ==
    LET decision == ins[1]
        additional_instructions == ins[2]
    IN  [consumed |-> 2,
         result |->
            [status |-> human_in_loop_status(decision),
             decision |-> decision,
             additional_instructions |->
                 IF StripNonEmpty(additional_instructions)
                 THEN additional_instructions
                 ELSE "None",
             timestamp |-> now.ymdhm \o now.rest]]

\* agent.py:198-234
human_in_loop(situation, context, suggested_actions, ins, now) ==
    LET decision == ins[1]
        additional_instructions == ins[2]
    IN  [consumed |-> 2,
         result |->
            [status |-> human_in_loop_status(decision),
             decision |-> decision,
             additional_instructions |->
                 IF additional_instructions # "" THEN additional_instructions
                 ELSE "None",
             timestamp |-> now.ymdhm \o now.rest]]

-----------------------------------------------------------------------------
(* Python values whose type varies (results of json.loads, row counts) are *)
(* records tagged with their type.                                         *)

PyNone == [type |-> "NoneType"]
PyBool(b) == [type |-> "bool", bool |-> b]
PyInt(n) == [type |-> "int", int |-> n]
PyStr(s) == [type |-> "str", str |-> s]
PyList(items) == [type |-> "list", items |-> items]
PyDict(items) == [type |-> "dict", items |-> items]

\* the dict with no key
NoItems == << >>

\* d[key] = value on the items of a dict
SetItem(items, key, value) == (key :> value) @@ items

\* the character of s at position i, "" past the end
Char(s, i) == IF i >= 1 /\ i <= Len(s) THEN SubSeq(s, i, i) ELSE ""

Digits == "0123456789"
DigitChars == {SubSeq(Digits, i, i) : i \in 1..Len(Digits)}

\* the value of one decimal digit
DigitValue(c) == (CHOOSE i \in 1..Len(Digits) : SubSeq(Digits, i, i) = c) - 1

\* str.isdigit() on ASCII text: not empty and decimal digits only
isdigit(s) == s # "" /\ \A i \in 1..Len(s) : SubSeq(s, i, i) \in DigitChars

\* int() of a text of decimal digits
RECURSIVE int(_)
int(s) ==
    IF s = "" THEN 0
    ELSE 10 * int(SubSeq(s, 1, Len(s) - 1)) + DigitValue(SubSeq(s, Len(s), Len(s)))

\* str.startswith()
startswith(s, prefix) ==
    Len(s) >= Len(prefix) /\ SubSeq(s, 1, Len(prefix)) = prefix

\* str.lstrip() and str.rstrip()
RECURSIVE lstrip(_)
lstrip(s) ==
    IF s # "" /\ SubSeq(s, 1, 1) \in Spaces THEN lstrip(SubSeq(s, 2, Len(s)))
    ELSE s

RECURSIVE rstrip(_)
rstrip(s) ==
    IF s # "" /\ SubSeq(s, Len(s), Len(s)) \in Spaces
    THEN rstrip(SubSeq(s, 1, Len(s) - 1))
    ELSE s

\* str.strip()
strip(s) == rstrip(lstrip(s))

\* json.loads on the JSON of integers, strings without escapes, true, false,
\* null, arrays and objects; a parse step gives the value and the position
\* after it, or fails
JsonFail == [ok |-> FALSE, val |-> PyNone, pos |-> 0]
JsonAt(val, pos) == [ok |-> TRUE, val |-> val, pos |-> pos]

RECURSIVE skip_ws(_, _)
skip_ws(s, i) == IF Char(s, i) \in Spaces THEN skip_ws(s, i + 1) ELSE i

\* the position after the digits that start at i
RECURSIVE skip_digits(_, _)
skip_digits(s, i) ==
    IF Char(s, i) \in DigitChars THEN skip_digits(s, i + 1) ELSE i

\* -? (0 | [1-9][0-9]*), with no fraction or exponent after it
parse_int(s, i) ==
    LET neg == Char(s, i) = "-"
        b == IF neg THEN i + 1 ELSE i
        e == skip_digits(s, b)
    IN  IF e = b THEN JsonFail
        ELSE IF Char(s, b) = "0" /\ e > b + 1 THEN JsonFail
        ELSE IF Char(s, e) \in {".", "e", "E"} THEN JsonFail
        ELSE JsonAt(PyInt(IF neg THEN 0 - int(SubSeq(s, b, e - 1))
                          ELSE int(SubSeq(s, b, e - 1))), e)

\* the position of the quote that closes the string begun before i
RECURSIVE string_end(_, _)
string_end(s, i) ==
    IF i > Len(s) \/ Char(s, i) = "\\" THEN 0
    ELSE IF Char(s, i) = "\"" THEN i
    ELSE string_end(s, i + 1)

parse_string(s, i) ==
    LET e == string_end(s, i + 1)
    IN  IF Char(s, i) # "\"" \/ e = 0 THEN JsonFail
        ELSE JsonAt(PyStr(SubSeq(s, i + 1, e - 1)), e + 1)

\* the literal kw stands at position i of s
Literal(kw, s, i) == i + Len(kw) - 1 <= Len(s) /\ MatchAt(kw, s, i)

RECURSIVE parse_value(_, _)
RECURSIVE parse_elems(_, _, _, _)
RECURSIVE parse_members(_, _, _, _)

\* the elements of an array from position i, acc those parsed so far
parse_elems(s, i, acc, first) ==
    IF first /\ Char(s, i) = "]" THEN JsonAt(PyList(acc), i + 1)
    ELSE LET v == parse_value(s, i)
             j == skip_ws(s, v.pos)
         IN  IF ~v.ok THEN JsonFail
             ELSE IF Char(s, j) = ","
                  THEN parse_elems(s, skip_ws(s, j + 1), Append(acc, v.val),
                                   FALSE)
             ELSE IF Char(s, j) = "]"
                  THEN JsonAt(PyList(Append(acc, v.val)), j + 1)
             ELSE JsonFail

\* the members of an object from position i; a key given twice keeps the
\* later value
parse_members(s, i, acc, first) ==
    IF first /\ Char(s, i) = "}" THEN JsonAt(PyDict(acc), i + 1)
    ELSE LET k == parse_string(s, i)
             c == skip_ws(s, k.pos)
             v == parse_value(s, skip_ws(s, c + 1))
             j == skip_ws(s, v.pos)
         IN  IF ~k.ok \/ Char(s, c) # ":" THEN JsonFail
             ELSE IF ~v.ok THEN JsonFail
             ELSE IF Char(s, j) = ","
                  THEN parse_members(s, skip_ws(s, j + 1),
                                     SetItem(acc, k.val.str, v.val), FALSE)
             ELSE IF Char(s, j) = "}"
                  THEN JsonAt(PyDict(SetItem(acc, k.val.str, v.val)), j + 1)
             ELSE JsonFail

parse_value(s, i) ==
    LET c == Char(s, i)
    IN  IF c = "{" THEN parse_members(s, skip_ws(s, i + 1), NoItems, TRUE)
        ELSE IF c = "[" THEN parse_elems(s, skip_ws(s, i + 1), << >>, TRUE)
        ELSE IF c = "\"" THEN parse_string(s, i)
        ELSE IF c = "-" \/ c \in DigitChars THEN parse_int(s, i)
        ELSE IF Literal("true", s, i) THEN JsonAt(PyBool(TRUE), i + 4)
        ELSE IF Literal("false", s, i) THEN JsonAt(PyBool(FALSE), i + 5)
        ELSE IF Literal("null", s, i) THEN JsonAt(PyNone, i + 4)
        ELSE JsonFail

\* json.loads: ok is FALSE where it raises json.JSONDecodeError
json_loads(s) ==
    LET v == parse_value(s, skip_ws(s, 1))
    IN  IF v.ok /\ skip_ws(s, v.pos) > Len(s) THEN v ELSE JsonFail

\* len(): the types that have a length, and their length
Sized(v) == v.type \in {"str", "list", "dict"}
len(v) ==
    CASE v.type = "str" -> Len(v.str)
      [] v.type = "list" -> Len(v.items)
      [] v.type = "dict" -> Cardinality(DOMAIN v.items)

-----------------------------------------------------------------------------
(* The tools of sql_agent.py *)

\* sql_agent.py:152-165: the results of a query that was not an error
query_results(outcome, ins) ==
    IF lower(outcome) = "success"
    THEN LET results_input == ins[2]
         IN  IF isdigit(results_input)
             THEN PyDict([row_count |-> PyInt(int(results_input)),
                          rows |-> PyList(<< >>)])
             ELSE IF json_loads(results_input).ok
                  THEN json_loads(results_input).val
             ELSE PyDict([raw_output |-> PyStr(results_input)])
    ELSE IF json_loads(outcome).ok THEN json_loads(outcome).val
    ELSE PyDict([raw_output |-> PyStr(outcome)])

\* sql_agent.py:171: the row count reported beside the results; raises
\* is TRUE where len() raises TypeError
row_count_of(results) ==
    IF results.type = "dict" /\ "rows" \in DOMAIN results.items
    THEN IF Sized(results.items["rows"])
         THEN [raises |-> FALSE, value |-> PyInt(len(results.items["rows"])),
               of_type |-> ""]
         ELSE [raises |-> TRUE, value |-> PyNone,
               of_type |-> results.items["rows"].type]
    ELSE [raises |-> FALSE, value |-> PyNone, of_type |-> ""]

\* sql_agent.py:115-191
execute_sql_query(query, explanation, ins, now) ==
    LET outcome == ins[1]
    IN  IF startswith(lower(outcome), "error")
        THEN [consumed |-> 1,
              result |->
                 [status |-> "error",
                  query |-> query,
                  error_message |->
                      IF Len(outcome) > 6
                      THEN strip(SubSeq(outcome, 7, Len(outcome)))
                      ELSE "Unknown database error",
                  suggestion |-> "Check table names, column names, and syntax",
                  executed_at |-> now.ymdhm \o now.rest]]
        ELSE LET results == query_results(outcome, ins)
                 row_count == row_count_of(results)
             IN  [consumed |-> IF lower(outcome) = "success" THEN 2 ELSE 1,
                  result |->
                     IF row_count.raises
                     THEN [status |-> "error",
                           query |-> query,
                           error_message |->
                               "Result parsing error: object of type '"
                               \o row_count.of_type \o "' has no len()",
                           executed_at |-> now.ymdhm \o now.rest]
                     ELSE [status |-> "success",
                           query |-> query,
                           results |-> results,
                           row_count |-> row_count.value,
                           executed_at |-> now.ymdhm \o now.rest]]

\* sql_agent.py:42-113
DATABASE_SCHEMA_literal ==
    [customer_master |->
        [description |-> "Main customer information table with account details, API keys, and configuration",
         key_columns |-> <<"customer_id", "CustomerName", "api_key", "extraction_type">>,
         relationships |-> [customer_preferences |-> "customer_id",
                            case_master |-> "customer_id",
                            document_classification |-> "customer_id",
                            pipleline_customer_config |-> "customer_id",
                            di_audit |-> "customer_id"]],
     customer_preferences |->
        [description |-> "Additional customer configuration and preferences",
         key_columns |-> <<"id", "customer_id", "preference_name", "preference_value">>,
         relationships |-> [customer_master |-> "customer_id"]],
     api_master |->
        [description |-> "Downstream API definitions and configurations",
         key_columns |-> <<"api_id", "api_url", "api_method_type", "api_type">>,
         relationships |-> [pipeline_master |-> "api_id",
                            di_audit |-> "api_id"]],
     pipeline_master |->
        [description |-> "Abstraction layer over API master with meaningful pipeline names",
         key_columns |-> <<"pipeline_id", "pipeline_name", "api_id">>,
         relationships |-> [api_master |-> "api_id",
                            pipleline_customer_config |-> "pipeline_id"]],
     pipleline_customer_config |->
        [description |-> "Customer-specific pipeline configurations per queue",
         key_columns |-> <<"pipeline_customer_id", "pipeline_id", "customer_id", "queue_name">>,
         relationships |-> [pipeline_master |-> "pipeline_id",
                            customer_master |-> "customer_id",
                            di_audit |-> "pipeline_customer_id"]],
     di_audit |->
        [description |-> "Audit logs for downstream integration actions and API calls",
         key_columns |-> <<"id", "pipeline_customer_id", "customer_id", "queue_name", "case_id", "doc_id">>,
         relationships |-> [pipleline_customer_config |-> "pipeline_customer_id",
                            customer_master |-> "customer_id",
                            api_master |-> "api_id",
                            case_master |-> "case_id"]],
     case_master |->
        [description |-> "Main case/file processing table with upload and status information",
         key_columns |-> <<"case_id", "customer_id", "user_id", "queue_name", "file_name">>,
         relationships |-> [customer_master |-> "customer_id",
                            document_classification |-> "case_id",
                            di_audit |-> "case_id"]],
     document_classification |->
        [description |-> "Individual documents within cases with classification and parsing results",
         key_columns |-> <<"id", "customer_id", "case_id", "document_classification_id", "documnt_class">>,
         relationships |-> [customer_master |-> "customer_id",
                            case_master |-> "case_id"]]]

\* the order of the keys of DATABASE_SCHEMA (sql_agent.py:43-104)
TableOrder ==
    <<"customer_master", "customer_preferences", "api_master",
      "pipeline_master", "pipleline_customer_config", "di_audit",
      "case_master", "document_classification">>

\* a name bound to a dict: the dict object it refers to and that dict's items
DictOf(object, items) == [object |-> object, items |-> items]

\* dict.copy(): a new dict object with the same items
dict_copy(d) == DictOf("new", d.items)

\* variant: the entry of DATABASE_SCHEMA itself, not a copy of it
get_table_schema_alias(table_name, ins, schema) ==
    IF table_name \in DOMAIN schema
    THEN LET entry == DictOf("DATABASE_SCHEMA", schema[table_name])
             named == SetItem(entry.items, "table_name", table_name)
             user_input == ins[1]
             schema_info ==
                 IF ~StripNonEmpty(user_input) THEN named
                 ELSE IF json_loads(user_input).ok
                      THEN SetItem(named, "columns",
                                   json_loads(user_input).val)
                 ELSE SetItem(named, "columns",
                              PyDict([error |-> PyStr("Invalid JSON format")]))
         IN  [consumed |-> 1,
              result |-> schema_info,
              schema |-> IF entry.object = "DATABASE_SCHEMA"
                         THEN [schema EXCEPT ![table_name] = schema_info]
                         ELSE schema]
    ELSE [consumed |-> 0,
          result |-> [table_name |-> table_name,
                      error |-> "Table '" \o table_name
                                \o "' not found in known schema",
                      available_tables |-> TableOrder],
          schema |-> schema]

\* sql_agent.py:238-279: the record returned and DATABASE_SCHEMA afterwards;
\* a store into schema_info reaches DATABASE_SCHEMA only if schema_info is
\* the dict object held there
get_table_schema(table_name, ins, schema) ==
    IF table_name \in DOMAIN schema
    THEN LET entry == dict_copy(DictOf("DATABASE_SCHEMA", schema[table_name]))
             named == SetItem(entry.items, "table_name", table_name)
             user_input == ins[1]
             schema_info ==
                 IF ~StripNonEmpty(user_input) THEN named
                 ELSE IF json_loads(user_input).ok
                      THEN SetItem(named, "columns",
                                   json_loads(user_input).val)
                 ELSE SetItem(named, "columns",
                              PyDict([error |-> PyStr("Invalid JSON format")]))
         IN  [consumed |-> 1,
              result |-> schema_info,
              schema |-> IF entry.object = "DATABASE_SCHEMA"
                         THEN [schema EXCEPT ![table_name] = schema_info]
                         ELSE schema]
    ELSE [consumed |-> 0,
          result |-> [table_name |-> table_name,
                      error |-> "Table '" \o table_name
                                \o "' not found in known schema",
                      available_tables |-> TableOrder],
          schema |-> schema]

-----------------------------------------------------------------------------
(* One tool call: the tool runs to its return on the console lines typed.  *)
(* A call starts only when the record of the call before has been taken.   *)

NoArgs == [none |-> TRUE]
NoResult == [status |-> "none"]
NoFirst == [tool |-> "none", status |-> "none", args |-> NoArgs]

\* replay_text of a run that is free to type a different text at each prompt
AnyText == "<any>"

\* the outcome texts that can be typed at a prompt
Outcomes == IF replay_text = AnyText THEN Texts ELSE {replay_text}

\* the call classifies an outcome text (manage_notes "read" reads the notes
\* text instead and classifies nothing, agent.py:172-180)
Classifies(name, a) == ~(name = "manage_notes" /\ a.action = "read")

\* variant: a manage_notes write stores its content in the notepad
Returned_stores(name, a, ins, r) ==
    /\ tool' = name
    /\ args' = a
    /\ inputs' = SubSeq(ins, 1, r.consumed)
    /\ result' = r.result
    /\ notepad_storage' =
          IF name = "manage_notes" /\ a.action = "write"
          THEN [notepad_storage EXCEPT !.notes = a.content]
          ELSE notepad_storage
    /\ replay_text' = replay_text
    /\ first_status' =
          IF replay_text # AnyText /\ first_status = NoFirst
             /\ Classifies(name, a)
          THEN [tool |-> name, status |-> r.result.status, args |-> a]
          ELSE first_status
    /\ UNCHANGED smvars
    /\ UNCHANGED sqlvars

\* the state after a call that returned r
Returned(name, a, ins, r) ==
    /\ tool' = name
    /\ args' = a
    /\ inputs' = SubSeq(ins, 1, r.consumed)
    /\ result' = r.result
    /\ notepad_storage' = notepad_storage
    /\ replay_text' = replay_text
    /\ first_status' =
          IF replay_text # AnyText /\ first_status = NoFirst
             /\ Classifies(name, a)
          THEN [tool |-> name, status |-> r.result.status, args |-> a]
          ELSE first_status
    /\ UNCHANGED smvars
    /\ UNCHANGED sqlvars

CallContact ==
    /\ tool = "none"
    /\ \E contact_name \in Names, phone_number \in Phones, purpose \in Purposes,
          outcome \in Outcomes, now \in Nows :
           Returned("call_contact",
                    [contact_name |-> contact_name,
                     phone_number |-> phone_number, purpose |-> purpose],
                    <<outcome>>,
                    call_contact(contact_name, phone_number, purpose,
                                 <<outcome>>, now))

ScheduleCalendar ==
    /\ tool = "none"
    /\ \E candidate_name \in Names, date \in Dates, time \in Clocks,
          duration_minutes \in Durations, interview_type \in InterviewTypes,
          outcome \in Outcomes, now \in Nows :
           Returned("schedule_calendar",
                    [candidate_name |-> candidate_name, date |-> date,
                     time |-> time, duration_minutes |-> duration_minutes,
                     interview_type |-> interview_type],
                    <<outcome>>,
                    schedule_calendar(candidate_name, date, time,
                                      duration_minutes, interview_type,
                                      <<outcome>>, now))

SendEmail ==
    /\ tool = "none"
    /\ \E recipient_email \in Emails, subject \in Subjects,
          message_type \in MessageTypes, additional_details \in Details,
          outcome \in Outcomes, reply \in Replies,
          response_time \in ResponseTimes, now \in Nows :
           Returned("send_email",
                    [recipient_email |-> recipient_email, subject |-> subject,
                     message_type |-> message_type,
                     additional_details |-> additional_details],
                    <<outcome, reply, response_time>>,
                    send_email(recipient_email, subject, message_type,
                               additional_details,
                               <<outcome, reply, response_time>>, now))

ManageNotes ==
    /\ tool = "none"
    /\ \E action \in NoteActions, content \in NoteContents, line \in Outcomes,
          now \in Nows :
           Returned("manage_notes",
                    [action |-> action, content |-> content],
                    <<line>>,
                    manage_notes(action, content, <<line>>, now))

HumanInLoop ==
    /\ tool = "none"
    /\ \E situation_arg \in Situations, context \in Details,
          suggested_actions \in Details, decision \in Outcomes,
          additional_instructions \in Instructions, now \in Nows :
           Returned("human_in_loop",
                    [situation |-> situation_arg, context |-> context,
                     suggested_actions |-> suggested_actions],
                    <<decision, additional_instructions>>,
                    human_in_loop(situation_arg, context, suggested_actions,
                                  <<decision, additional_instructions>>, now))

\* the runner takes the returned record; the next call starts from here
Collect ==
    /\ tool # "none"
    /\ tool' = "none"
    /\ args' = NoArgs
    /\ inputs' = << >>
    /\ result' = NoResult
    /\ UNCHANGED <<notepad_storage, replay_text, first_status>>
    /\ UNCHANGED smvars
    /\ UNCHANGED sqlvars

\* the session before its first action (section 4.3, item 1)
SessionInit ==
    /\ state = "AwaitInterviewerSlots"
    /\ trigger = "none"
    /\ esc_situation = ""
    /\ pending = [kind |-> "call", to |-> "Interviewer"]
    /\ final = "none"
    /\ notified = {}
    /\ log = << >>

ModuleInit ==
    /\ notepad_storage = [notes |-> ""]
    /\ DATABASE_SCHEMA = DATABASE_SCHEMA_literal
    /\ tool = "none"
    /\ args = NoArgs
    /\ inputs = << >>
    /\ result = NoResult
    /\ first_status = NoFirst

ToolsInit ==
    /\ ModuleInit
    /\ replay_text = AnyText
    /\ SessionInit

ToolsNext ==
    \/ Collect
    \/ CallContact
    \/ ScheduleCalendar
    \/ SendEmail
    \/ ManageNotes
    \/ HumanInLoop

\* any sequence of tool calls, each on any console text
SpecTools == ToolsInit /\ [][ToolsNext]_vars

\* texts typed again at every prompt of a replay run
ReplayTexts == {"", "answer", "No answer", "failED", "fail", "Conflict",
                "ERROR", "cancel"}

ReplayInit ==
    /\ ModuleInit
    /\ replay_text \in ReplayTexts
    /\ SessionInit

\* any sequence of tool calls, all on one and the same outcome text
SpecReplay == ReplayInit /\ [][ToolsNext]_vars

\* the lines that can be typed at the second prompt of execute_sql_query,
\* which appears only after the outcome "success"
ResultLines(outcome) ==
    IF lower(outcome) = "success" THEN SqlResults ELSE {""}

ExecuteSqlQuery ==
    /\ tool = "none"
    /\ \E query \in Queries, explanation \in Explanations,
          outcome \in SqlOutcomes, now \in Nows :
          \E results_input \in ResultLines(outcome) :
             Returned("execute_sql_query",
                      [query |-> query, explanation |-> explanation],
                      <<outcome, results_input>>,
                      execute_sql_query(query, explanation,
                                        <<outcome, results_input>>, now))

GetTableSchema ==
    /\ tool = "none"
    /\ \E table_name \in TableNames, user_input \in SchemaInputs :
          LET r == get_table_schema(table_name, <<user_input>>,
                                    DATABASE_SCHEMA)
          IN  /\ tool' = "get_table_schema"
              /\ args' = [table_name |-> table_name]
              /\ inputs' = SubSeq(<<user_input>>, 1, r.consumed)
              /\ result' = r.result
              /\ DATABASE_SCHEMA' = r.schema
              /\ UNCHANGED <<notepad_storage, replay_text, first_status>>
              /\ UNCHANGED smvars

SqlNext ==
    \/ Collect
    \/ ExecuteSqlQuery
    \/ GetTableSchema

\* any sequence of calls of the tools of sql_agent.py
SpecSql == ToolsInit /\ [][SqlNext]_vars

-----------------------------------------------------------------------------
(* The coordination session.  Each step issues the pending action through *)
(* its tool, takes the returned record, appends the attempt to the log and *)
(* moves by the record's status.                                           *)

\* most attempts one session logs
MaxLog == 6

\* outcome texts typed during a session
SessionTexts == {"", "No answer", "failED", "Conflict", "cancel"}

\* replies and clock readings of a session; neither reaches the log
SessionReplies == {"", "Tuesday works"}
SessionNows == {[ymdhm |-> "202506201500", rest |-> "07.123456"]}

AllParticipants == {"Interviewer", "Candidate", "HR"}

\* the people of the session (contact_based_runner.py:199-325 gives samples)
ContactOf ==
    [Interviewer |-> [name |-> "Sarah Chen", phone |-> "+1-555-0101",
                      email |-> "sarah@example.com",
                      purpose |-> "Interviewer availability"],
     Candidate   |-> [name |-> "Alex Rivera", phone |-> "+1-555-0202",
                      email |-> "alex@example.com",
                      purpose |-> "Candidate slot preference"],
     HR          |-> [name |-> "Jordan Lee", phone |-> "+1-555-0303",
                      email |-> "jordan@example.com",
                      purpose |-> "escalation to HR recruiter"]]

\* the session variables as one record
Current ==
    [state |-> state, trigger |-> trigger, situation |-> esc_situation,
     pending |-> pending, final |-> final, notified |-> notified]

NoAction == [kind |-> "none", to |-> "none"]

\* the first action of a state (section 4.3)
FirstAction(st) ==
    CASE st = "AwaitInterviewerSlots" -> [kind |-> "call", to |-> "Interviewer"]
      [] st = "AwaitCandidatePreference" -> [kind |-> "call", to |-> "Candidate"]
      [] st = "AwaitConfirmation" -> [kind |-> "schedule", to |-> "Candidate"]
      [] st = "Escalated" -> [kind |-> "call", to |-> "HR"]
      [] OTHER -> NoAction

\* the state after the contact of a state succeeded
NextState(st) ==
    CASE st = "AwaitInterviewerSlots" -> "AwaitCandidatePreference"
      [] st = "AwaitCandidatePreference" -> "AwaitConfirmation"
      [] OTHER -> st

\* situation reported when the contact of a state fails twice
SituationOf(st) ==
    CASE st = "AwaitInterviewerSlots" -> "interviewer unresponsive"
      [] st = "AwaitCandidatePreference" -> "candidate scheduling conflict"
      [] st = "AwaitConfirmation" -> "slot conflict at confirmation"
      [] OTHER -> ""

Goto(cur, st) ==
    [cur EXCEPT !.state = st, !.pending = FirstAction(st)]

Escalate(cur) ==
    [cur EXCEPT !.state = "Escalated", !.trigger = cur.state,
                !.situation = SituationOf(cur.state),
                !.pending = FirstAction("Escalated")]

\* variant: a candidate who answers the call ends the session at once
OnCall_shortcut(cur, status) ==
    IF cur.state = "Escalated"
    THEN IF status = "success"
         THEN [cur EXCEPT !.pending = [kind |-> "escalate", to |-> "Human"]]
         ELSE [cur EXCEPT !.pending = [kind |-> "email", to |-> "HR"]]
    ELSE IF status = "success"
         THEN IF cur.state = "AwaitCandidatePreference"
              THEN [cur EXCEPT !.state = "Done", !.pending = NoAction,
                               !.final = "completed",
                               !.notified = AllParticipants]
              ELSE Goto(cur, NextState(cur.state))
         ELSE [cur EXCEPT !.pending = [kind |-> "email", to |-> cur.pending.to]]

\* variant: HR answering the call counts as the guidance, no decision asked
OnCall_hr_resolves(cur, status) ==
    IF cur.state = "Escalated"
    THEN IF status = "success"
         THEN [Goto(cur, cur.trigger) EXCEPT !.trigger = "none",
                                             !.situation = ""]
         ELSE [cur EXCEPT !.pending = [kind |-> "email", to |-> "HR"]]
    ELSE IF status = "success"
         THEN Goto(cur, NextState(cur.state))
         ELSE [cur EXCEPT !.pending = [kind |-> "email", to |-> cur.pending.to]]

\* section 4.3 items 1, 2 and 4: the outcome of a call
OnCall(cur, status) ==
    IF cur.state = "Escalated"
    THEN IF status = "success"
         THEN [cur EXCEPT !.pending = [kind |-> "escalate", to |-> "Human"]]
         ELSE [cur EXCEPT !.pending = [kind |-> "email", to |-> "HR"]]
    ELSE IF status = "success"
         THEN Goto(cur, NextState(cur.state))
         ELSE [cur EXCEPT !.pending = [kind |-> "email", to |-> cur.pending.to]]

\* section 4.3 items 1, 2 and 4: the outcome of the follow-up email; no
\* transition is given for an HR email that is not delivered
OnEmail(cur, status) ==
    IF cur.state = "Escalated"
    THEN IF status = "success"
         THEN [cur EXCEPT !.pending = [kind |-> "escalate", to |-> "Human"]]
         ELSE [cur EXCEPT !.pending = NoAction]
    ELSE IF status = "success"
         THEN Goto(cur, NextState(cur.state))
         ELSE Escalate(cur)

\* section 4.3 item 3: the outcome of the scheduling proposal
OnSchedule(cur, status) ==
    IF status = "success"
    THEN [cur EXCEPT !.state = "Done", !.pending = NoAction,
                     !.final = "completed", !.notified = AllParticipants]
    ELSE Escalate(cur)

\* variant: a cancelled session keeps its pending action
OnDecision_keeps_pending(cur, status) ==
    IF status = "resolved"
    THEN [Goto(cur, cur.trigger) EXCEPT !.trigger = "none", !.situation = ""]
    ELSE [cur EXCEPT !.state = "Done", !.final = "cancelled"]

\* section 4.3 item 4 and section 4.4: the human decision
OnDecision(cur, status) ==
    IF status = "resolved"
    THEN [Goto(cur, cur.trigger) EXCEPT !.trigger = "none", !.situation = ""]
    ELSE [cur EXCEPT !.state = "Done", !.pending = NoAction,
                     !.final = "cancelled"]

\* the field in which a tool's record carries the outcome text as typed
RawOutcome(name, rec) ==
    CASE name = "call_contact" -> rec.discussion_summary
      [] name = "send_email" -> rec.delivery_confirmation
      [] name = "schedule_calendar" -> rec.confirmation
      [] name = "human_in_loop" -> rec.decision

\* the session issued its pending action through tool `name` with arguments
\* a, the tool read the console lines ins and returned r; the session logs
\* the attempt from the returned record and moves to nxt
Taken(name, a, ins, r, nxt) ==
    /\ Len(log) < MaxLog
    /\ log' = Append(log, [state |-> state, kind |-> pending.kind,
                           to |-> pending.to,
                           text |-> RawOutcome(name, r.result),
                           status |-> r.result.status])
    /\ state' = nxt.state
    /\ trigger' = nxt.trigger
    /\ esc_situation' = nxt.situation
    /\ pending' = nxt.pending
    /\ final' = nxt.final
    /\ notified' = nxt.notified
    /\ tool' = name
    /\ args' = a
    /\ inputs' = SubSeq(ins, 1, r.consumed)
    /\ result' = r.result
    /\ notepad_storage' = notepad_storage
    /\ UNCHANGED replayvars
    /\ UNCHANGED sqlvars

SessionCall ==
    /\ pending.kind = "call"
    /\ \E outcome \in SessionTexts, now \in SessionNows :
        LET who == ContactOf[pending.to]
            r == call_contact(who.name, who.phone, who.purpose,
                              <<outcome>>, now)
        IN  Taken("call_contact",
                  [contact_name |-> who.name, phone_number |-> who.phone,
                   purpose |-> who.purpose],
                  <<outcome>>, r, OnCall(Current, r.result.status))

SessionEmail ==
    /\ pending.kind = "email"
    /\ \E outcome \in SessionTexts, reply \in SessionReplies,
          response_time \in ResponseTimes, now \in SessionNows :
        LET who == ContactOf[pending.to]
            r == send_email(who.email, who.purpose, "follow-up", "",
                            <<outcome, reply, response_time>>, now)
        IN  Taken("send_email",
                  [recipient_email |-> who.email, subject |-> who.purpose,
                   message_type |-> "follow-up", additional_details |-> ""],
                  <<outcome, reply, response_time>>, r,
                  OnEmail(Current, r.result.status))

SessionSchedule ==
    /\ pending.kind = "schedule"
    /\ \E date \in Dates, time \in Clocks, duration_minutes \in Durations,
          interview_type \in InterviewTypes, outcome \in SessionTexts,
          now \in SessionNows :
        LET r == schedule_calendar(ContactOf.Candidate.name, date, time,
                                   duration_minutes, interview_type,
                                   <<outcome>>, now)
        IN  Taken("schedule_calendar",
                  [candidate_name |-> ContactOf.Candidate.name, date |-> date,
                   time |-> time, duration_minutes |-> duration_minutes,
                   interview_type |-> interview_type],
                  <<outcome>>, r, OnSchedule(Current, r.result.status))

SessionEscalate ==
    /\ pending.kind = "escalate"
    /\ \E decision \in SessionTexts, additional_instructions \in Instructions,
          now \in SessionNows :
        LET r == human_in_loop(esc_situation, trigger, "",
                               <<decision, additional_instructions>>, now)
        IN  Taken("human_in_loop",
                  [situation |-> esc_situation, context |-> trigger,
                   suggested_actions |-> ""],
                  <<decision, additional_instructions>>, r,
                  OnDecision(Current, r.result.status))

Init ==
    /\ ModuleInit
    /\ replay_text = AnyText
    /\ SessionInit

Next ==
    \/ SessionCall
    \/ SessionEmail
    \/ SessionSchedule
    \/ SessionEscalate

\* one coordination session, every outcome text typed by the operator
Spec == Init /\ [][Next]_vars

\* the statuses of the four tools of a session
SessionStatuses == {"success", "no_answer", "failed", "conflict", "resolved",
                    "cancelled"}

\* the pending action is issued and its attempt logged, whatever the text
\* and the status: the step every one of the four session actions takes,
\* enabled whenever an action is pending
Attempt ==
    /\ pending.kind # "none"
    /\ Len(log) < MaxLog
    /\ \E text \in SessionTexts, status \in SessionStatuses :
          log' = Append(log, [state |-> state, kind |-> pending.kind,
                              to |-> pending.to, text |-> text,
                              status |-> status])

\* one coordination session in which every pending action is issued and
\* gets its outcome: the tools block on input() and return as soon as the
\* line is typed
SpecLive == Init /\ [][Next]_vars /\ WF_log(Attempt)

-----------------------------------------------------------------------------
(* Properties *)

\* kw occurs in s when letter case is ignored (kw is lower case)
Mentions(s, kw) ==
    \E i \in 1..(Len(s) - Len(kw) + 1) :
        \A j \in 1..Len(kw) :
            LowerChar(SubSeq(s, i + j - 1, i + j - 1)) = SubSeq(kw, j, j)

CallNegative(text) == Mentions(text, "no answer") \/ Mentions(text, "failed")
ScheduleNegative(text) == Mentions(text, "conflict") \/ Mentions(text, "fail")
EmailNegative(text) == Mentions(text, "fail") \/ Mentions(text, "error")
DecisionNegative(text) == Mentions(text, "cancel")

\* C1: call_contact returns no_answer exactly when the outcome text, letter
\* case ignored, contains "no answer" or "failed", and success for every
\* other text.
C1_ContactStatus ==
    tool = "call_contact" =>
        /\ result.status = "no_answer" <=> CallNegative(inputs[1])
        /\ result.status = "success" <=> ~CallNegative(inputs[1])

\* a call whose outcome has "fail" but not "failed" came back success
C1_Witness ==
    /\ tool = "call_contact"
    /\ Mentions(inputs[1], "fail")
    /\ ~Mentions(inputs[1], "failed")
    /\ result.status = "success"

\* C2: schedule_calendar returns conflict exactly when the outcome text,
\* letter case ignored, contains "conflict" or "fail", success otherwise, and
\* no other status.
C2_ScheduleStatus ==
    tool = "schedule_calendar" =>
        /\ result.status \in {"conflict", "success"}
        /\ result.status = "conflict" <=> ScheduleNegative(inputs[1])

\* a proposal answered "Conflict..." in capitals came back conflict
C2_Witness ==
    /\ tool = "schedule_calendar"
    /\ Mentions(inputs[1], "conflict")
    /\ ~In("conflict", inputs[1])
    /\ result.status = "conflict"

\* C3: send_email returns failed exactly when the delivery text, letter case
\* ignored, contains "fail" or "error", success otherwise, whatever reply and
\* response time are typed afterwards.
C3_EmailStatus ==
    tool = "send_email" =>
        /\ result.status \in {"failed", "success"}
        /\ result.status = "failed" <=> EmailNegative(inputs[1])

\* a delivered email whose reply talks of a failure came back success
C3_Witness ==
    /\ tool = "send_email"
    /\ Len(inputs) = 3
    /\ EmailNegative(inputs[2])
    /\ result.status = "success"

\* C4: human_in_loop returns cancelled exactly when the decision, letter case
\* ignored, contains "cancel", resolved otherwise, whatever the additional
\* instructions are.
C4_EscalationStatus ==
    tool = "human_in_loop" =>
        /\ result.status \in {"cancelled", "resolved"}
        /\ result.status = "cancelled" <=> DecisionNegative(inputs[1])

\* instructions that say "cancel" after a decision that does not: resolved
C4_Witness ==
    /\ tool = "human_in_loop"
    /\ DecisionNegative(inputs[2])
    /\ ~DecisionNegative(inputs[1])
    /\ result.status = "resolved"

ContactFields == {"status", "contact_name", "contact_role", "phone_number",
                  "discussion_summary", "duration_minutes", "next_steps"}
ScheduleFields == {"status", "candidate_name", "scheduled_date",
                   "scheduled_time", "duration_minutes", "interview_type",
                   "confirmation", "meeting_id"}
EmailFields == {"status", "recipient_email", "recipient_role", "subject",
                "message_type", "delivery_confirmation", "recipient_response",
                "response_time", "sent_at"}
EscalationFields == {"status", "decision", "additional_instructions",
                     "timestamp"}

\* C6: in each of the four domains a text without a negative keyword, the
\* empty text included, gives the positive status, and every text gives a
\* record with all its fields and one of the domain's two statuses.
C6_PositiveDefault ==
    /\ tool = "call_contact" =>
          /\ DOMAIN result = ContactFields
          /\ result.status \in {"success", "no_answer"}
          /\ ~CallNegative(inputs[1]) => result.status = "success"
          /\ result.discussion_summary = inputs[1]
    /\ tool = "schedule_calendar" =>
          /\ DOMAIN result = ScheduleFields
          /\ result.status \in {"success", "conflict"}
          /\ ~ScheduleNegative(inputs[1]) => result.status = "success"
          /\ result.confirmation = inputs[1]
    /\ tool = "send_email" =>
          /\ DOMAIN result = EmailFields
          /\ result.status \in {"success", "failed"}
          /\ ~EmailNegative(inputs[1]) => result.status = "success"
          /\ result.delivery_confirmation = inputs[1]
    /\ tool = "human_in_loop" =>
          /\ DOMAIN result = EscalationFields
          /\ result.status \in {"resolved", "cancelled"}
          /\ ~DecisionNegative(inputs[1]) => result.status = "resolved"
          /\ result.decision = inputs[1]

\* a call answered with the empty text came back success
C6_Witness ==
    /\ tool = "call_contact"
    /\ inputs = <<"">>
    /\ result.status = "success"
    /\ DOMAIN result = ContactFields

\* the rule of section 4.2 applied to one text
SharedRole(text, default) ==
    IF Mentions(text, "interviewer") THEN "Interviewer"
    ELSE IF Mentions(text, "candidate") \/ Mentions(text, "applicant")
         THEN "Candidate"
    ELSE IF Mentions(text, "hr") \/ Mentions(text, "recruiter")
         THEN "HR/Recruiter"
    ELSE default

\* C7 as stated: call and email derive the role by the same rule, from the
\* purpose and from the subject.
C7_SameRuleBothChannels ==
    /\ tool = "call_contact" =>
          result.contact_role = SharedRole(args.purpose, "Contact")
    /\ tool = "send_email" =>
          result.recipient_role = SharedRole(args.subject, "Recipient")

EitherMentions(a, b, kw) == Mentions(a, kw) \/ Mentions(b, kw)

\* C7 amended: each channel has its own first-match rule.  A call reads the
\* purpose ("interviewer"; "candidate"; "hr" or "recruiter"; else Contact).
\* An email reads message type and subject ("interviewer" or "interview
\* availability"; "candidate" or "applicant"; "hr", "recruiter" or
\* "recruitment"; else Recipient).
C7_RolePerChannel ==
    /\ tool = "call_contact" =>
          LET p == args.purpose
              r == result.contact_role
          IN  /\ r = "Interviewer" <=> Mentions(p, "interviewer")
              /\ r = "Candidate" <=>
                    ~Mentions(p, "interviewer") /\ Mentions(p, "candidate")
              /\ r = "HR/Recruiter" <=>
                    /\ ~Mentions(p, "interviewer") /\ ~Mentions(p, "candidate")
                    /\ Mentions(p, "hr") \/ Mentions(p, "recruiter")
              /\ r \in {"Interviewer", "Candidate", "HR/Recruiter", "Contact"}
    /\ tool = "send_email" =>
          LET m == args.message_type
              t == args.subject
              r == result.recipient_role
              first == EitherMentions(m, t, "interviewer")
                       \/ EitherMentions(m, t, "interview availability")
              second == EitherMentions(m, t, "candidate")
                        \/ EitherMentions(m, t, "applicant")
              third == EitherMentions(m, t, "hr")
                       \/ EitherMentions(m, t, "recruiter")
                       \/ EitherMentions(m, t, "recruitment")
          IN  /\ r = "Interviewer" <=> first
              /\ r = "Candidate" <=> ~first /\ second
              /\ r = "HR/Recruiter" <=> ~first /\ ~second /\ third
              /\ r \in {"Interviewer", "Candidate", "HR/Recruiter",
                        "Recipient"}

\* a call about an "applicant" was labelled Contact
C7_Witness ==
    /\ tool = "call_contact"
    /\ Mentions(args.purpose, "applicant")
    /\ result.contact_role = "Contact"

\* C8: the next-step hint of a call follows from its status: "Follow up via
\* email" exactly with no_answer, "Proceed with scheduling" exactly with
\* success.
C8_HintFollowsStatus ==
    tool = "call_contact" =>
        /\ result.next_steps = "Follow up via email" <=>
              result.status = "no_answer"
        /\ result.next_steps = "Proceed with scheduling" <=>
              result.status = "success"

\* an unanswered call came back with the email hint
C8_Witness ==
    /\ tool = "call_contact"
    /\ result.status = "no_answer"
    /\ result.next_steps = "Follow up via email"

\* the session has logged an attempt made in state st
Visited(st) == \E i \in 1..Len(log) : log[i].state = st

\* C9: no step leads from AwaitInterviewerSlots or AwaitCandidatePreference
\* to Done, and a session that is Done and completed has made an attempt in
\* AwaitConfirmation.
C9_NoShortcutToDone ==
    /\ [][(state \in {"AwaitInterviewerSlots", "AwaitCandidatePreference"})
            => (state' # "Done")]_vars
    /\ []((state = "Done" /\ final = "completed")
            => Visited("AwaitConfirmation"))

\* a session completed after an escalation on the way
C9_Witness ==
    /\ state = "Done"
    /\ final = "completed"
    /\ Visited("Escalated")
    /\ Visited("AwaitConfirmation")

\* the last two attempts of l: a call and then an email to the same
\* participant in the same state, both with a negative outcome text
TwoNegatives(l) ==
    /\ Len(l) >= 2
    /\ LET a == l[Len(l) - 1]
           b == l[Len(l)]
       IN  /\ a.kind = "call" /\ b.kind = "email"
           /\ a.to = b.to /\ a.state = b.state
           /\ CallNegative(a.text) /\ EmailNegative(b.text)

\* the last attempt of l: a proposal in AwaitConfirmation met a conflict
ConflictAtConfirmation(l) ==
    /\ Len(l) >= 1
    /\ l[Len(l)].kind = "schedule"
    /\ l[Len(l)].state = "AwaitConfirmation"
    /\ ScheduleNegative(l[Len(l)].text)

EntersEscalated == state # "Escalated" /\ state' = "Escalated"
Attempted == state # "Escalated" /\ log' # log

\* C10 as stated: a step enters Escalated if and only if it completes a
\* negative call followed by a negative email to the same participant.
C10_OnlyTwoNegatives ==
    [][EntersEscalated <=> (Attempted /\ TwoNegatives(log'))]_vars

\* C10 amended: a step enters Escalated if and only if it completes a
\* negative call followed by a negative email to the same participant in
\* one state, or it is a scheduling attempt in AwaitConfirmation classified
\* conflict.
C10_EscalationEntry ==
    [][EntersEscalated <=>
          (Attempted /\ (TwoNegatives(log') \/ ConflictAtConfirmation(log')))
      ]_vars

\* escalated from AwaitConfirmation after a single conflict
C10_Witness ==
    /\ state = "Escalated"
    /\ trigger = "AwaitConfirmation"
    /\ ConflictAtConfirmation(log)

\* the newest attempt of l
Last(l) == l[Len(l)]

\* the step logged an attempt
Stepped == log' # log

ContactStates == {"AwaitInterviewerSlots", "AwaitCandidatePreference"}

\* C11: in AwaitInterviewerSlots and AwaitCandidatePreference the first
\* action is a call to the state's participant; a call classified no_answer
\* is followed by one email to the same participant in the same state; that
\* email classified negative escalates with the state's situation; a call
\* classified success moves to the next state.
C11_CallThenEmail ==
    /\ []((state \in ContactStates /\ (log = << >> \/ Last(log).state # state))
            => pending = [kind |-> "call",
                          to |-> IF state = "AwaitInterviewerSlots"
                                 THEN "Interviewer" ELSE "Candidate"])
    /\ [][(state \in ContactStates /\ Stepped /\ pending.kind = "call")
            => IF CallNegative(Last(log').text)
               THEN /\ state' = state
                    /\ pending' = [kind |-> "email", to |-> pending.to]
               ELSE /\ state = "AwaitInterviewerSlots"
                         => state' = "AwaitCandidatePreference"
                    /\ state = "AwaitCandidatePreference"
                         => state' = "AwaitConfirmation"]_vars
    /\ [][(state \in ContactStates /\ Stepped /\ pending.kind = "email")
            => /\ state' # state
               /\ Last(log').to = Last(log).to
               /\ EmailNegative(Last(log').text)
                    => /\ state' = "Escalated"
                       /\ state = "AwaitInterviewerSlots"
                            => esc_situation' = "interviewer unresponsive"
                       /\ state = "AwaitCandidatePreference"
                            => esc_situation' = "candidate scheduling conflict"
          ]_vars

\* the candidate's call and email both failed and the session escalated
C11_Witness ==
    /\ state = "Escalated"
    /\ esc_situation = "candidate scheduling conflict"
    /\ Len(log) >= 2
    /\ Last(log).kind = "email" /\ Last(log).to = "Candidate"
    /\ log[Len(log) - 1].kind = "call" /\ log[Len(log) - 1].to = "Candidate"

\* C12: after an interviewer call classified no_answer, a follow-up email
\* that returns the text "no answer" counts as negative: the session moves to
\* Escalated, situation "interviewer unresponsive", and calls HR next.
C12_EmailNoAnswerEscalates ==
    [][(/\ state = "AwaitInterviewerSlots"
        /\ pending = [kind |-> "email", to |-> "Interviewer"]
        /\ Stepped
        /\ Mentions(Last(log').text, "no answer"))
          => /\ state' = "Escalated"
             /\ esc_situation' = "interviewer unresponsive"
             /\ pending' = [kind |-> "call", to |-> "HR"]]_vars

\* C13: in AwaitConfirmation a proposal classified success ends the session
\* in Done and triggers the confirmation emails to all three participants,
\* one classified conflict escalates with "slot conflict at confirmation",
\* and no other step triggers a confirmation email.
C13_ConfirmationOutcome ==
    /\ [][(Stepped /\ pending.kind = "schedule")
            => /\ state = "AwaitConfirmation"
               /\ IF ScheduleNegative(Last(log').text)
                  THEN /\ state' = "Escalated"
                       /\ esc_situation' = "slot conflict at confirmation"
                       /\ notified' = {}
                  ELSE /\ state' = "Done"
                       /\ notified' = {"Interviewer", "Candidate", "HR"}
          ]_vars
    /\ [][notified' # notified
            => /\ pending.kind = "schedule"
               /\ state' = "Done"
               /\ ~ScheduleNegative(Last(log').text)]_vars

\* the proposal went through and all three were notified
C13_Witness ==
    /\ state = "Done"
    /\ Last(log).kind = "schedule"
    /\ notified = {"Interviewer", "Candidate", "HR"}

\* C14: in Escalated the first attempt is a call to HR, and an email to HR
\* comes only right after that call was classified no_answer.
C14_HRCallFirst ==
    /\ (state = "Escalated" /\ Last(log).state # "Escalated")
          => pending = [kind |-> "call", to |-> "HR"]
    /\ (state = "Escalated" /\ pending.kind = "email")
          => /\ pending.to = "HR"
             /\ Last(log).state = "Escalated" /\ Last(log).kind = "call"
             /\ CallNegative(Last(log).text)
    /\ \A i \in 1..Len(log) :
          log[i].state = "Escalated" =>
             /\ (i = 1 \/ log[i - 1].state # "Escalated")
                   => (log[i].kind = "call" /\ log[i].to = "HR")
             /\ log[i].kind = "email"
                   => /\ log[i].to = "HR"
                      /\ i > 1
                      /\ log[i - 1].state = "Escalated"
                      /\ log[i - 1].kind = "call"
                      /\ log[i - 1].to = "HR"
                      /\ CallNegative(log[i - 1].text)

\* HR did not answer the call and was sent the email
C14_Witness ==
    /\ state = "Escalated"
    /\ Len(log) >= 2
    /\ Last(log).kind = "email" /\ Last(log).to = "HR"
    /\ log[Len(log) - 1].kind = "call" /\ log[Len(log) - 1].to = "HR"

\* C15: a visit to Escalated is left only by the step that records the
\* human decision, and that decision is the one and last record of the visit.
C15_DecisionBeforeLeaving ==
    \A i \in 1..Len(log) :
        /\ log[i].kind = "escalate"
              => /\ log[i].state = "Escalated"
                 /\ i < Len(log) => log[i + 1].state # "Escalated"
                 /\ i = Len(log) => state # "Escalated"
        /\ (/\ log[i].state = "Escalated"
            /\ \/ i < Len(log) /\ log[i + 1].state # "Escalated"
               \/ i = Len(log) /\ state # "Escalated")
              => log[i].kind = "escalate"

\* an escalation ended by a decision that cancelled the session
C15_Witness ==
    /\ state = "Done"
    /\ final = "cancelled"
    /\ Last(log).kind = "escalate"
    /\ Last(log).state = "Escalated"

\* the state of the newest attempt of l made outside Escalated
EnteredFrom(l) ==
    LET k == CHOOSE n \in 1..Len(l) :
                 /\ l[n].state # "Escalated"
                 /\ \A m \in (n + 1)..Len(l) : l[m].state = "Escalated"
    IN  l[k].state

\* C16: a decision classified resolved returns the session to the state the
\* escalation was entered from; one classified cancelled ends it in Done
\* marked cancelled; nothing else marks a session cancelled.
C16_DecisionOutcome ==
    /\ [][(Stepped /\ pending.kind = "escalate")
            => /\ state = "Escalated"
               /\ IF DecisionNegative(Last(log').text)
                  THEN state' = "Done" /\ final' = "cancelled"
                  ELSE /\ state' = EnteredFrom(log)
                       /\ state' \in {"AwaitInterviewerSlots",
                                      "AwaitCandidatePreference",
                                      "AwaitConfirmation"}
                       /\ final' = "none"]_vars
    /\ [][(final' = "cancelled" /\ final # "cancelled")
            => /\ pending.kind = "escalate"
               /\ DecisionNegative(Last(log').text)]_vars

\* a conflict at confirmation was resolved and the session is back there
C16_Witness ==
    /\ state = "AwaitConfirmation"
    /\ Last(log).kind = "escalate"
    /\ Last(log).status = "resolved"
    /\ final = "none"

\* C17: no step starts in Done, a session in Done has no pending action and
\* is marked completed or cancelled, and the mark is never changed.
C17_DoneIsTerminal ==
    /\ [][state # "Done"]_vars
    /\ [](state = "Done" => (pending.kind = "none"
                             /\ final \in {"completed", "cancelled"}))
    /\ [](state # "Done" => final = "none")
    /\ [][final # "none" => final' = final]_vars

\* a session in Done and completed
C17_Witness ==
    /\ state = "Done"
    /\ final = "completed"
    /\ pending.kind = "none"
    /\ Len(log) >= 3

\* C18: in every state but Done an action is pending, whatever statuses the
\* attempts so far were given.
C18_NeverStuck ==
    state # "Done" => pending.kind # "none"

\* attempts i..j of the log were made within one visit to a state
SameVisit(i, j) == \A k \in i..j : log[k].state = log[i].state

\* C19: within one visit to a state a participant gets at most one call and
\* at most one email, the email directly after the call was classified
\* negative, and the action pending is not a second one either.
C19_NoRetry ==
    /\ \A i \in 1..Len(log) : \A j \in (i + 1)..Len(log) :
          (/\ SameVisit(i, j)
           /\ log[i].kind \in {"call", "email"}
           /\ log[i].kind = log[j].kind)
             => log[i].to # log[j].to
    /\ \A j \in 1..Len(log) :
          log[j].kind = "email"
             => /\ j > 1
                /\ log[j - 1].kind = "call"
                /\ log[j - 1].to = log[j].to
                /\ log[j - 1].state = log[j].state
                /\ CallNegative(log[j - 1].text)
    /\ \A i \in 1..Len(log) :
          (/\ SameVisit(i, Len(log))
           /\ log[i].state = state
           /\ pending.kind \in {"call", "email"})
             => ~(log[i].kind = pending.kind /\ log[i].to = pending.to)

\* the interviewer got one call and one email, and the session moved on
C19_Witness ==
    /\ Len(log) = 2
    /\ log[1].kind = "call" /\ log[2].kind = "email"
    /\ log[1].to = "Interviewer" /\ log[2].to = "Interviewer"
    /\ state = "AwaitCandidatePreference"

\* the tool through which an action of each kind is issued
ToolOf(kind) ==
    CASE kind = "call" -> "call_contact"
      [] kind = "email" -> "send_email"
      [] kind = "schedule" -> "schedule_calendar"
      [] kind = "escalate" -> "human_in_loop"

\* the negative status of each kind of action and the texts that give it
NegativeStatus(kind) ==
    CASE kind = "call" -> "no_answer"
      [] kind = "email" -> "failed"
      [] kind = "schedule" -> "conflict"
      [] kind = "escalate" -> "cancelled"

NegativeText(kind, text) ==
    CASE kind = "call" -> CallNegative(text)
      [] kind = "email" -> EmailNegative(text)
      [] kind = "schedule" -> ScheduleNegative(text)
      [] kind = "escalate" -> DecisionNegative(text)

C23_Instructions ==
    tool = "human_in_loop" =>
        /\ Len(inputs) = 2
        /\ inputs[2] # "" => result.additional_instructions = inputs[2]
        /\ inputs[2] = "" => result.additional_instructions = "None"
        /\ result.decision = inputs[1]

\* instructions of two blanks came back as typed, beside a decision in
\* capitals that came back as typed as well
C23_Witness ==
    /\ tool = "human_in_loop"
    /\ inputs[2] = "  "
    /\ result.additional_instructions = "  "
    /\ result.decision = "ERROR"

\* the text has no character other than blanks
Blank(text) == \A i \in 1..Len(text) : SubSeq(text, i, i) \in {" ", "\t"}

LinesRead ==
    IF EmailNegative(inputs[1]) THEN 1
    ELSE IF Blank(inputs[2]) THEN 2
    ELSE 3

\* C25 as stated: send_email reads one line when the delivery is classified
\* failed, two when delivered with a blank reply, three when delivered with
\* a reply; recipient_response is "Email not delivered" if and only if the
\* status is failed; response_time differs from "N/A" only after a reply
\* that is not blank.
C25_SentinelIffFailed ==
    tool = "send_email" =>
        /\ Len(inputs) = LinesRead
        /\ result.recipient_response = "Email not delivered"
              <=> result.status = "failed"
        /\ result.response_time # "N/A"
              => (Len(inputs) = 3 /\ ~Blank(inputs[2]))

\* C25 amended: the lines read and the response time as stated;
\* recipient_response is "Email not delivered" whenever the status is
\* failed, and with status success it is the reply as typed, or "No
\* response received" after a blank reply.
C25_InputsOrder ==
    tool = "send_email" =>
        /\ Len(inputs) = LinesRead
        /\ result.status = "failed"
              => result.recipient_response = "Email not delivered"
        /\ result.status = "success"
              => result.recipient_response =
                    IF Blank(inputs[2]) THEN "No response received"
                    ELSE inputs[2]
        /\ result.response_time # "N/A"
              => (Len(inputs) = 3 /\ ~Blank(inputs[2]))

\* a delivered email whose reply reads "Email not delivered"
C25_Witness ==
    /\ tool = "send_email"
    /\ Len(inputs) = 3
    /\ result.status = "success"
    /\ result.recipient_response = "Email not delivered"

\* C26: no tool changes the notepad store: after any sequence of calls it
\* still is {"notes": ""}; a manage_notes read returns the line typed at
\* its prompt, whatever was written before, and no content field.
C26_NotepadUntouched ==
    /\ notepad_storage = [notes |-> ""]
    /\ (tool = "manage_notes" /\ args.action = "read")
          => /\ result.current_notes = inputs[1]
             /\ "content" \notin DOMAIN result
             /\ result.status = "success"

\* the run began with a write of "slot: Tue 2pm"; a later read returned
\* the line typed at its prompt, and the store is still empty
C26_Witness ==
    /\ first_status.tool = "manage_notes"
    /\ first_status.args.action = "write"
    /\ first_status.args.content = "slot: Tue 2pm"
    /\ first_status.status = "success"
    /\ tool = "manage_notes"
    /\ args.action = "read"
    /\ result.current_notes # "slot: Tue 2pm"
    /\ notepad_storage.notes = ""

\* the text begins with kw when letter case is ignored (kw is lower case)
BeginsWith(text, kw) ==
    /\ Len(text) >= Len(kw)
    /\ \A j \in 1..Len(kw) : LowerChar(SubSeq(text, j, j)) = SubSeq(kw, j, j)

\* what stands in the text behind the six characters of the "error:" prefix
Following(text) == IF Len(text) > 6 THEN SubSeq(text, 7, Len(text)) ELSE ""

\* the text from its first to its last character that is not a blank
Trimmed(text) ==
    LET solid == {i \in 1..Len(text) : SubSeq(text, i, i) \notin {" ", "\t"}}
    IN  IF solid = {} THEN ""
        ELSE SubSeq(text, CHOOSE i \in solid : \A j \in solid : i <= j,
                          CHOOSE i \in solid : \A j \in solid : i >= j)

\* C27: execute_sql_query returns status error exactly when the outcome
\* begins with "error", letter case ignored, and success for every other
\* outcome; the error_message is the text behind the "error:" prefix without
\* its surrounding blanks when there is such a text and "Unknown database
\* error" when there is none; the query field is the query argument.
C27_ErrorPrefix ==
    tool = "execute_sql_query" =>
        /\ result.query = args.query
        /\ result.status = "error" <=> BeginsWith(inputs[1], "error")
        /\ result.status = "success" <=> ~BeginsWith(inputs[1], "error")
        /\ BeginsWith(inputs[1], "error") =>
              result.error_message =
                 IF Trimmed(Following(inputs[1])) # ""
                 THEN Trimmed(Following(inputs[1]))
                 ELSE "Unknown database error"

\* the text is one or more decimal digits
AllDigits(text) ==
    /\ Len(text) >= 1
    /\ \A i \in 1..Len(text) :
          \E d \in 1..Len(Digits) : SubSeq(text, i, i) = SubSeq(Digits, d, d)

\* the number a text of decimal digits denotes, read from the left
RECURSIVE NumberOf(_)
NumberOf(text) ==
    IF text = "" THEN 0
    ELSE DigitValue(SubSeq(text, 1, 1)) * 10 ^ (Len(text) - 1)
         + NumberOf(SubSeq(text, 2, Len(text)))

\* the results are a JSON object whose "rows" is a list
HasRowsList(results) ==
    /\ results.type = "dict"
    /\ "rows" \in DOMAIN results.items
    /\ results.items["rows"].type = "list"

\* C28: after the outcome "success" and a bare row count n as the result,
\* the row_count beside the results is n, the same as the row_count inside
\* the results; for a JSON object with a "rows" list it is the length of
\* that list; for every other result it is None.
C28_RowCount ==
    (tool = "execute_sql_query" /\ result.status = "success") =>
        IF BeginsWith(inputs[1], "success") /\ Len(inputs[1]) = 7
           /\ AllDigits(inputs[2])
        THEN /\ result.row_count = PyInt(NumberOf(inputs[2]))
             /\ result.results.items["row_count"] = result.row_count
        ELSE IF HasRowsList(result.results)
        THEN result.row_count = PyInt(Len(result.results.items["rows"].items))
        ELSE result.row_count = PyNone

\* C29: get_table_schema leaves DATABASE_SCHEMA as it was written: the same
\* eight tables, each with its description, key_columns and relationships
\* and no other key, whatever table is asked for and whatever is typed.
C29_SchemaUnchanged ==
    /\ DOMAIN DATABASE_SCHEMA = {TableOrder[i] : i \in 1..Len(TableOrder)}
    /\ Cardinality(DOMAIN DATABASE_SCHEMA) = 8
    /\ \A t \in DOMAIN DATABASE_SCHEMA :
          /\ DOMAIN DATABASE_SCHEMA[t] =
                {"description", "key_columns", "relationships"}
          /\ DATABASE_SCHEMA[t].description
                = DATABASE_SCHEMA_literal[t].description
          /\ DATABASE_SCHEMA[t].key_columns
                = DATABASE_SCHEMA_literal[t].key_columns
          /\ DATABASE_SCHEMA[t].relationships
                = DATABASE_SCHEMA_literal[t].relationships

\* a call for a known table returned the entry with table_name and the
\* columns typed, and the entry of DATABASE_SCHEMA has neither key
C29_Witness ==
    /\ tool = "get_table_schema"
    /\ args.table_name = "customer_master"
    /\ {"table_name", "columns"} \subseteq DOMAIN result
    /\ result.columns.type = "dict"
    /\ result.description = DATABASE_SCHEMA["customer_master"].description
    /\ DOMAIN DATABASE_SCHEMA["customer_master"]
          \cap {"table_name", "columns"} = {}

\* the step took a contact or scheduling outcome that was classified negative
NegativeOutcome ==
    /\ Stepped
    /\ pending.kind \in {"call", "email", "schedule"}
    /\ Last(log').status # "success"

\* C30: when every pending action gets its outcome and, from some point on,
\* no contact or scheduling outcome is classified negative, the session
\* reaches Done (or the log has grown to the length at which the model
\* stops).
C30_EventuallyDone ==
    (<>[][~NegativeOutcome]_vars) => <>(state = "Done" \/ Len(log) = MaxLog)

====
